---------------------------- MODULE Spec2Model ----------------------------
(***************************************************************************)
(* State-machine model of weasyprint/pdf.py: the PDFFile object store      *)
(* (incremental update of a cairo-generated PDF), process_bookmarks and     *)
(* gather_metadata.                                                        *)
(*                                                                         *)
(* The file is a sequence of LF-terminated lines.  A line is a record      *)
(* [k |-> kind, v |-> <<numbers>>]; ByteLen gives the number of bytes the   *)
(* line occupies, so that file offsets are byte offsets as in the code.    *)
(***************************************************************************)
EXTENDS Integers, Sequences, FiniteSets, TLC

VARIABLES
    layout,                       \* which input PDF the session was opened on
    fileobj,                      \* PDFFile.fileobj: the lines of the file
    pos,                          \* file position of fileobj (a line index)
    objects_offsets,              \* PDFFile.objects_offsets[1..K]
    startxref,                    \* PDFFile.startxref
    info, catalog, page_tree,     \* PDFDictionary views read at construction
    pages,                        \* list of page views
    finished,                     \* PDFFile.finished
    overwritten_objects_offsets,  \* dict: object number -> offset
    new_objects_offsets,          \* list of offsets
    result,                       \* outcome of the last call
    calls,                        \* history of the calls made in the session
    bm,                           \* state of process_bookmarks
    gm                            \* state of gather_metadata

vars == <<layout, fileobj, pos, objects_offsets, startxref, info, catalog,
          page_tree, pages, finished, overwritten_objects_offsets,
          new_objects_offsets, result, calls, bm, gm>>

storeVars == <<layout, fileobj, pos, objects_offsets, startxref, info,
               catalog, page_tree, pages, finished,
               overwritten_objects_offsets, new_objects_offsets, result,
               calls>>

(***************************************************************************)
(* Bounds of the model.                                                    *)
(***************************************************************************)
\* number of overwrite_object / extend_dict / write_new_object calls
MaxOps == 3
\* number of finish calls that may complete
MaxFinish == 2
\* number of lines of the files given to read_object alone
MaxLines == 4
\* number of boxes, page boxes apart, of the document given to gather_metadata
MaxBoxes == 2
\* length of the bookmark list given to process_bookmarks
MaxBookmarks == 5
\* largest declared bookmark level
MaxLevel == 4

(***************************************************************************)
(* Lines and byte strings.                                                 *)
(***************************************************************************)
Line(k, v) == [k |-> k, v |-> v]

Digits(n) ==
    IF n < 10 THEN 1 ELSE IF n < 100 THEN 2 ELSE IF n < 1000 THEN 3
    ELSE IF n < 10000 THEN 4 ELSE 5

RECURSIVE SumDigits(_)
SumDigits(s) ==
    IF s = <<>> THEN 0 ELSE Digits(Head(s)) + 5 + SumDigits(Tail(s))

\* number of bytes of a line, its '\n' included
ByteLen(l) ==
    CASE l.k = "pdfhdr"    -> 9                        \* %PDF-1.5
      [] l.k = "obj"       -> Digits(l.v[1]) + 7       \* n 0 obj
      [] l.k = "endobj"    -> 7
      [] l.k = "close"     -> 3                        \* >>
      [] l.k = "blank"     -> 1
      [] l.k = "page"      -> 28 + Digits(l.v[1])      \* << /Type /Page /Parent p 0 R
      [] l.k = "pages"     -> 34 + SumDigits(l.v) + Digits(Len(l.v))
                                                       \* << /Type /Pages /Kids [ a 0 R ] /Count c
      [] l.k = "catalog"   -> 30 + Digits(l.v[1])      \* << /Type /Catalog /Pages p 0 R
      [] l.k = "info"      -> 20                       \* << /Creator (cairo)
      [] l.k = "data"      -> 7 + Digits(l.v[1])       \* << /X id
      [] l.k = "oneline"   -> 10 + Digits(l.v[1])      \* << /X id >>
      [] l.k = "extra"     -> 4 + Digits(l.v[1])       \* /E id
      [] l.k = "xref"      -> 5
      [] l.k = "sub"       -> Digits(l.v[1]) + Digits(l.v[2]) + 2
      [] l.k = "free"      -> 20                       \* 0000000000 65535 f
      [] l.k = "entry"     -> 20                       \* %010d 00000 n
      [] l.k = "trailer"   -> 8
      [] l.k = "tdict"     -> 35 + Digits(l.v[1]) + Digits(l.v[2]) + Digits(l.v[3])
                              + (IF l.v[4] >= 0 THEN 7 + Digits(l.v[4]) ELSE 0)
      [] l.k = "startxref" -> 10
      [] l.k = "num"       -> Digits(l.v[1]) + 1
      [] l.k = "eof"       -> 6                        \* %%EOF
      [] l.k = "producer"  -> 41                       \* << /Producer (..) >>, VERSION_STRING of 10 characters
      [] l.k = "outlines"  -> 50 + Digits(l.v[1]) + Digits(l.v[2]) + Digits(l.v[3])
                                                       \* << /Type /Outlines /Count c /First f 0 R /Last l 0 R
      [] l.k = "outlineref" -> 38 + Digits(l.v[1])     \* /Outlines r 0 R /PageMode /UseOutlines
      [] l.k = "title"     -> 17                       \* << /Title (..), a label of one character
      [] l.k = "count"     -> 8 + Digits(l.v[1])       \* /Count c
      [] l.k = "Parent"    -> 13 + Digits(l.v[1])      \* /Parent n 0 R
      [] l.k = "Prev"      -> 11 + Digits(l.v[1])
      [] l.k = "Next"      -> 11 + Digits(l.v[1])
      [] l.k = "First"     -> 12 + Digits(l.v[1])
      [] l.k = "Last"      -> 11 + Digits(l.v[1])
      [] l.k = "goto"      -> 64                       \* /A << /Type /Action /S /GoTo /D [0 /XYZ 0.000000 0.000000 0] >>
      [] OTHER             -> 1

RECURSIVE BytesUpTo(_, _)
BytesUpTo(f, i) == IF i <= 0 THEN 0 ELSE ByteLen(f[i]) + BytesUpTo(f, i - 1)

Bytes(ls) == BytesUpTo(ls, Len(ls))

\* byte offset at which line i of f begins (i = Len(f)+1: end of file)
OffsetOf(f, i) == BytesUpTo(f, i - 1)

RECURSIVE ScanTo(_, _, _, _)
ScanTo(f, i, at, off) ==
    IF at = off THEN i
    ELSE IF at > off \/ i > Len(f) THEN 0
    ELSE ScanTo(f, i + 1, at + ByteLen(f[i]), off)

\* index of the line of f that begins at byte offset off, 0 if there is none
\* (Len(f)+1 for the end of the file)
LineAt(f, off) == ScanTo(f, 1, 0, off)

\* A byte string is its lines plus whether the last one is LF-terminated.
ByteString(ls, nl) == [ls |-> ls, nl |-> nl]

(***************************************************************************)
(* The input: a PDF as cairo writes it (module docstring).  Objects        *)
(* 1..NPages are the pages, then the page tree, then Info and the catalog  *)
(* in either order; a single cross-reference section "0 K+1" and a trailer *)
(* with Size, Root and Info.  Two input files are explored: one page with  *)
(* Info before the catalog, two pages with the catalog before Info.        *)
(***************************************************************************)
Layouts == {1, 2}

NPages(lay) == lay
OrigCount(lay) == NPages(lay) + 3
PageTreeNo(lay) == NPages(lay) + 1
InfoNo(lay) == IF lay = 1 THEN NPages(lay) + 2 ELSE NPages(lay) + 3
RootNo(lay) == IF lay = 1 THEN NPages(lay) + 3 ELSE NPages(lay) + 2

OrigBody(lay, n) ==
    IF n <= NPages(lay)
        THEN <<Line("page", <<PageTreeNo(lay)>>), Line("close", <<>>)>>
    ELSE IF n = PageTreeNo(lay)
        THEN <<Line("pages", [i \in 1..NPages(lay) |-> i]),
               Line("close", <<>>)>>
    ELSE IF n = InfoNo(lay) THEN <<Line("info", <<>>), Line("close", <<>>)>>
    ELSE <<Line("catalog", <<PageTreeNo(lay)>>), Line("close", <<>>)>>

OrigObject(lay, n) ==
    <<Line("obj", <<n>>)>> \o OrigBody(lay, n) \o <<Line("endobj", <<>>)>>

RECURSIVE OrigObjectsUpTo(_, _)
OrigObjectsUpTo(lay, n) ==
    IF n = 0 THEN <<Line("pdfhdr", <<>>)>>
    ELSE OrigObjectsUpTo(lay, n - 1) \o OrigObject(lay, n)

OrigXref(lay) ==
    <<Line("xref", <<>>), Line("sub", <<0, OrigCount(lay) + 1>>),
      Line("free", <<>>)>>
    \o [n \in 1..OrigCount(lay) |->
           Line("entry", <<Bytes(OrigObjectsUpTo(lay, n - 1))>>)]

OrigTrailer(lay) ==
    <<Line("trailer", <<>>),
      Line("tdict", <<OrigCount(lay) + 1, RootNo(lay), InfoNo(lay), -1>>),
      Line("startxref", <<>>),
      Line("num", <<Bytes(OrigObjectsUpTo(lay, OrigCount(lay)))>>),
      Line("eof", <<>>)>>

OrigFile(lay) ==
    OrigObjectsUpTo(lay, OrigCount(lay)) \o OrigXref(lay) \o OrigTrailer(lay)

(***************************************************************************)
(* PDFFile.read_object and the PDFDictionary getters.                      *)
(***************************************************************************)
NoBytes == ByteString(<<>>, TRUE)

\* the value None where a byte string is expected
NoneBytes == ByteString(<<Line("None", <<>>)>>, FALSE)

Outcome(st, val, p) == [st |-> st, val |-> val, pos |-> p]

\* for line in fileobj: if line == b'>>\n': the first such line from i on
RECURSIVE FirstClose(_, _)
FirstClose(f, i) ==
    IF i > Len(f) THEN 0
    ELSE IF f[i].k = "close" THEN i
    ELSE FirstClose(f, i + 1)

\* the loop of read_object after the header at line i; j is the first '>>\n'
\* line (0: the loop runs off the end of the file and the method returns None)
ReadBody(f, i, j) ==
    IF j = 0 THEN Outcome("None", NoneBytes, Len(f) + 1)
    ELSE IF j = Len(f) THEN Outcome("StopIteration", NoBytes, j + 1)
    ELSE IF f[j + 1].k # "endobj" THEN Outcome("AssertionError", NoBytes, j + 2)
    ELSE Outcome("ok", ByteString(SubSeq(f, i + 1, j), TRUE), j + 2)

\* the header checks of read_object, after the seek to line i
ReadAt(f, object_number, i) ==
    IF i = 0 THEN Outcome("AssertionError", NoBytes, 0)
    ELSE IF i > Len(f) THEN Outcome("StopIteration", NoBytes, i)
    ELSE IF f[i].k # "obj" THEN Outcome("AssertionError", NoBytes, i + 1)
    ELSE IF f[i].v[1] # object_number
        THEN Outcome("AssertionError", NoBytes, i + 1)
    ELSE ReadBody(f, i, FirstClose(f, i + 1))

\* read_object(object_number) on file f with offset table offs: the outcome
\* ("ok" with the body, "None", or the exception raised) and the file position
read_object(f, offs, object_number) ==
    IF object_number \notin 1..Len(offs)
    THEN Outcome("IndexError", NoBytes, 0)
    ELSE ReadAt(f, object_number, LineAt(f, offs[object_number]))

PDFDictionary(object_number, byte_string) ==
    [object_number |-> object_number, byte_string |-> byte_string]

NoDict == PDFDictionary(0, NoBytes)

\* the first line of ls, from i on, that holds a value for key (0: no match)
RECURSIVE FirstWith(_, _, _)
FirstWith(ls, key, i) ==
    IF i > Len(ls) THEN 0
    ELSE IF \/ key \in {"Root", "Info"} /\ ls[i].k = "tdict"
            \/ key = "Pages" /\ ls[i].k = "catalog"
            \/ key = "Kids" /\ ls[i].k = "pages"
            \/ key = "Type" /\ ls[i].k \in {"page", "pages", "catalog"}
        THEN i
    ELSE FirstWith(ls, key, i + 1)

RefIn(l, key) ==
    IF key = "Root" THEN l.v[2] ELSE IF key = "Info" THEN l.v[3] ELSE l.v[1]

\* int(get_value(key, '(\d+) 0 R')): the first match in the bytes, -1 if none
get_ref(ls, key) ==
    IF FirstWith(ls, key, 1) = 0 THEN -1
    ELSE RefIn(ls[FirstWith(ls, key, 1)], key)

\* get_value('Kids', '\[(.+?)\]') split on ' 0 R'
get_kids(ls) ==
    IF FirstWith(ls, "Kids", 1) = 0 THEN <<>>
    ELSE ls[FirstWith(ls, "Kids", 1)].v

TypeOf(l) ==
    IF l.k = "page" THEN "Page" ELSE IF l.k = "pages" THEN "Pages"
    ELSE "Catalog"

get_type(ls) ==
    IF FirstWith(ls, "Type", 1) = 0 THEN "AttributeError"
    ELSE TypeOf(ls[FirstWith(ls, "Type", 1)])

\* type(self)(object_number, pdf_file.read_object(object_number)); a body of
\* None is stored as it is and fails only when a value is looked up in it
ViewOf(object_number, r) ==
    [ok |-> r.st \in {"ok", "None"}, pos |-> r.pos,
     dict |-> PDFDictionary(object_number, r.val)]

get_indirect_dict(ls, key, f, offs) ==
    IF get_ref(ls, key) = -1 THEN [ok |-> FALSE, pos |-> 0, dict |-> NoDict]
    ELSE ViewOf(get_ref(ls, key), read_object(f, offs, get_ref(ls, key)))

KidViews(kids, f, offs) ==
    [k \in 1..Len(kids) |-> ViewOf(kids[k], read_object(f, offs, kids[k]))]

get_indirect_dict_array(ls, f, offs) == KidViews(get_kids(ls), f, offs)

(***************************************************************************)
(* PDFFile.__init__                                                        *)
(***************************************************************************)
\* fileobj.seek(-200, os.SEEK_END)
TrailerWindow == 200

Store(ok, sx, offs, i, c, pt, pgs, p) ==
    [ok |-> ok, startxref |-> sx, objects_offsets |-> offs, info |-> i,
     catalog |-> c, page_tree |-> pt, pages |-> pgs, pos |-> p]

InitFails == Store(FALSE, 0, <<>>, NoDict, NoDict, NoDict, <<>>, 0)

\* the leftmost '\ntrailer\n' whose newline lies at byte w or later
RECURSIVE FirstTrailer(_, _, _)
FirstTrailer(f, t, w) ==
    IF t > Len(f) - 4 THEN 0
    ELSE IF f[t].k = "trailer" /\ OffsetOf(f, t) - 1 >= w THEN t
    ELSE FirstTrailer(f, t + 1, w)

\* trailer_re.search on the last 200 bytes: the line index of the leftmost
\* 'trailer' line of the window (0 if the file does not end as required)
TrailerSearch(f) ==
    IF Len(f) < 6 THEN 0
    ELSE IF f[Len(f)].k # "eof" \/ f[Len(f) - 1].k # "num"
            \/ f[Len(f) - 2].k # "startxref"
        THEN 0
    ELSE FirstTrailer(f, 2, Bytes(f) - TrailerWindow)

\* the cross-reference section at startxref: 'xref', '0 <total>', the free
\* entry of object 0, then one fixed-width line per object
XrefOk(f, x) ==
    /\ x > 0
    /\ x + 2 <= Len(f)
    /\ f[x].k = "xref"
    /\ f[x + 1].k = "sub"
    /\ f[x + 1].v[1] = 0
    /\ f[x + 2].k = "free"
    /\ x + 1 + f[x + 1].v[2] <= Len(f)
    /\ \A k \in 1..(f[x + 1].v[2] - 1) : f[x + 2 + k].k = "entry"

XrefOffsets(f, x) == [k \in 1..(f[x + 1].v[2] - 1) |-> f[x + 2 + k].v[1]]

\* assert all(p.get_type() == 'Page' for p in pages)
InitDone(sx, offs, i, c, pt, pgs) ==
    IF \E k \in 1..Len(pgs) :
           \/ ~pgs[k].ok
           \/ pgs[k].dict.byte_string = NoneBytes
           \/ get_type(pgs[k].dict.byte_string.ls) # "Page"
    THEN InitFails
    ELSE Store(TRUE, sx, offs, i.dict, c.dict, pt.dict,
               [k \in 1..Len(pgs) |-> pgs[k].dict],
               IF pgs = <<>> THEN pt.pos ELSE pgs[Len(pgs)].pos)

InitPages(f, sx, offs, i, c, pt) ==
    IF ~pt.ok \/ pt.dict.byte_string = NoneBytes THEN InitFails
    ELSE IF get_kids(pt.dict.byte_string.ls) = <<>> THEN InitFails
    ELSE InitDone(sx, offs, i, c, pt,
                  get_indirect_dict_array(pt.dict.byte_string.ls, f, offs))

InitTree(f, sx, offs, i, c) ==
    IF ~i.ok \/ ~c.ok \/ c.dict.byte_string = NoneBytes THEN InitFails
    ELSE InitPages(f, sx, offs, i, c,
                   get_indirect_dict(c.dict.byte_string.ls, "Pages", f, offs))

InitViews(f, trailer, sx, offs) ==
    InitTree(f, sx, offs, get_indirect_dict(trailer, "Info", f, offs),
             get_indirect_dict(trailer, "Root", f, offs))

InitAtXref(f, trailer, sx, x) ==
    IF ~XrefOk(f, x) THEN InitFails
    ELSE InitViews(f, trailer, sx, XrefOffsets(f, x))

\* the first `xref' line of the file from line i on (0: none)
RECURSIVE FirstXref(_, _)
FirstXref(f, i) ==
    IF i > Len(f) THEN 0
    ELSE IF f[i].k = "xref" THEN i
    ELSE FirstXref(f, i + 1)

\* a constructor that reads the first cross-reference section of the file,
\* not the one startxref points at
InitAtFirstXref(f, t, sx) ==
    IF t = 0 THEN InitFails
    ELSE InitAtXref(f, SubSeq(f, t + 1, Len(f) - 3), sx, FirstXref(f, 1))

\* fileobj.seek(startxref) after the trailer was matched
InitAtTrailer(f, t, sx) ==
    IF t = 0 THEN InitFails
    ELSE InitAtXref(f, SubSeq(f, t + 1, Len(f) - 3), sx, LineAt(f, sx))

PDFFile_init(f) == InitAtTrailer(f, TrailerSearch(f), f[Len(f) - 1].v[1])


(***************************************************************************)
(* Writing: _start_writing, _write_object and the public operations.       *)
(***************************************************************************)
\* _start_writing: assert not self.finished
\* a store that never closes
CanWriteAlways == TRUE

CanWrite == ~finished

\* writing where the last read left the file position, without the seek
SeekNowhere(f, p) == p

\* _start_writing: fileobj.seek(0, os.SEEK_END), the position writes start at
SeekEnd(f, p) == Len(f) + 1

\* fileobj.write at position at: replaces what is there, extends the file
write(f, at, ls) ==
    SubSeq(f, 1, at - 1) \o ls \o SubSeq(f, at + Len(ls), Len(f))

\* the offset fileobj.tell() gives at position at, the file and the position
\* after writing ls there
WriteAt(f, at, ls) ==
    [offset |-> OffsetOf(f, at), file |-> write(f, at, ls),
     pos |-> at + Len(ls)]

\* The lines that write(byte_string); write(b'\nendobj\n') leave in the file.
BodyLines(b) ==
    (IF b.nl THEN b.ls \o <<Line("blank", <<>>)>> ELSE b.ls)
    \o <<Line("endobj", <<>>)>>

\* _write_object: the offset returned, the file and the position afterwards
write_object(f, p, object_number, byte_string) ==
    WriteAt(f, SeekEnd(f, p),
            <<Line("obj", <<object_number>>)>> \o BodyLines(byte_string))

\* A dict is the list of its items [key, value] in order of first insertion.
Item(key, value) == [key |-> key, value |-> value]

DictKeys(d) == {d[i].key : i \in DOMAIN d}

DictGet(d, key) == (CHOOSE i \in DOMAIN d : d[i].key = key)

\* dict.setdefault: the first offset recorded for a key stays
DictSetDefault(d, key, value) ==
    IF key \in {d[i].key : i \in DOMAIN d} THEN d
    ELSE Append(d, [key |-> key, value |-> value])

\* a list of pairs instead of a dict: every assignment adds an item
DictSetAppend(d, key, value) == Append(d, [key |-> key, value |-> value])

\* self.overwritten_objects_offsets[object_number] = offset
DictSet(d, key, value) ==
    IF key \in DictKeys(d)
    THEN [i \in DOMAIN d |-> IF d[i].key = key THEN Item(key, value) ELSE d[i]]
    ELSE Append(d, Item(key, value))

\* numbering that forgets the entry of object 0 in the original table
next_object_number_less_one == Len(objects_offsets) + Len(new_objects_offsets)

next_object_number == (Len(objects_offsets) + 1) + Len(new_objects_offsets)

\* the new content added after the closing token instead of before it
ExtendedAfterClose(byte_string, e) ==
    [ls |-> byte_string.ls \o <<[k |-> "extra", v |-> <<e>>],
                               [k |-> "close", v |-> <<>>]>>,
     nl |-> TRUE]

\* dictionary.byte_string[:-3] + new_content + b'\n>>\n', new_content a line
Spliced(byte_string, new_content) ==
    ByteString(SubSeq(byte_string.ls, 1, Len(byte_string.ls) - 1)
                   \o <<new_content, Line("close", <<>>)>>, TRUE)

\* extend_dict: dictionary.byte_string[:-3] + new_content + b'\n>>\n'
Extended(byte_string, e) == Spliced(byte_string, Line("extra", <<e>>))

\* dictionary.byte_string.endswith(b'>>\n')
EndsWithClose(b) ==
    /\ b # NoneBytes
    /\ b.nl
    /\ Len(b.ls) > 0
    /\ b.ls[Len(b.ls)].k = "close"

(***************************************************************************)
(* The calls of a session.  calls records the calls that completed, in     *)
(* order; a call that raises leaves the store as it was.                   *)
(***************************************************************************)
Call(op, n, b) == [op |-> op, n |-> n, b |-> b]

Result(op, st, num, val) == [op |-> op, st |-> st, num |-> num, val |-> val]

Writes == {i \in 1..Len(calls) : calls[i].op # "finish"}

Finishes == {i \in 1..Len(calls) : calls[i].op = "finish"}

\* The model explores MaxOps writing calls.  A read changes nothing but the
\* file position, which every write resets: the calls that would follow a
\* read are those that follow the state before it, and the model explores a
\* read as the last call of a session.
MayWrite == Cardinality(Writes) < MaxOps /\ result.op # "read"

\* the byte strings written, as write_pdf_metadata passes them: a one-line
\* dictionary '<< /X id >>' to overwrite_object and a dictionary closed on a
\* line of its own '<< /X id\n>>' to write_new_object; id names the call
Content(shape, id) ==
    IF shape = "oneline" THEN ByteString(<<Line("oneline", <<id>>)>>, FALSE)
    ELSE ByteString(<<Line("data", <<id>>), Line("close", <<>>)>>, FALSE)

Views == {info, catalog, page_tree} \cup {pages[i] : i \in 1..Len(pages)}

\* AssertionError out of _start_writing or extend_dict
Raise(op) ==
    /\ result' = Result(op, "AssertionError", 0, NoBytes)
    /\ UNCHANGED <<layout, fileobj, pos, objects_offsets, startxref, info,
                   catalog, page_tree, pages, finished,
                   overwritten_objects_offsets, new_objects_offsets, calls,
                   bm, gm>>

\* an overwrite that records the new offset in the original table
OverwrittenInTable(op, object_number, byte_string, w) ==
    /\ fileobj' = w.file
    /\ pos' = w.pos
    /\ objects_offsets' = [objects_offsets EXCEPT ![object_number] = w.offset]
    /\ result' = [op |-> op, st |-> "ok", num |-> 0, val |-> [ls |-> <<>>, nl |-> TRUE]]
    /\ calls' = Append(calls, [op |-> op, n |-> object_number, b |-> byte_string])
    /\ UNCHANGED <<layout, overwritten_objects_offsets, startxref, info,
                   catalog, page_tree, pages, finished, new_objects_offsets,
                   bm, gm>>

Overwritten(op, object_number, byte_string, w) ==
    /\ fileobj' = w.file
    /\ pos' = w.pos
    /\ overwritten_objects_offsets' =
           DictSet(overwritten_objects_offsets, object_number, w.offset)
    /\ result' = Result(op, "ok", 0, NoBytes)
    /\ calls' = Append(calls, Call(op, object_number, byte_string))
    /\ UNCHANGED <<layout, objects_offsets, startxref, info, catalog,
                   page_tree, pages, finished, new_objects_offsets, bm, gm>>

\* overwrite_object(object_number, byte_string), also as called by extend_dict
DoOverwrite(op, object_number, byte_string) ==
    IF ~CanWrite THEN Raise(op)
    ELSE Overwritten(op, object_number, byte_string,
                     write_object(fileobj, pos, object_number, byte_string))

overwrite_object ==
    /\ MayWrite
    /\ \E n \in 1..Len(objects_offsets) :
           DoOverwrite("overwrite", n, Content("oneline", Len(calls) + 1))

extend_dict ==
    /\ MayWrite
    /\ \E dictionary \in Views :
           IF ~EndsWithClose(dictionary.byte_string) THEN Raise("extend")
           ELSE DoOverwrite("extend", dictionary.object_number,
                            Extended(dictionary.byte_string, Len(calls) + 1))

Written(object_number, byte_string, w) ==
    /\ fileobj' = w.file
    /\ pos' = w.pos
    /\ new_objects_offsets' = Append(new_objects_offsets, w.offset)
    /\ result' = Result("new", "ok", object_number, NoBytes)
    /\ calls' = Append(calls, Call("new", object_number, byte_string))
    /\ UNCHANGED <<layout, objects_offsets, startxref, info, catalog,
                   page_tree, pages, finished, overwritten_objects_offsets,
                   bm, gm>>

DoWriteNew(object_number, byte_string) ==
    IF ~CanWrite THEN Raise("new")
    ELSE Written(object_number, byte_string,
                 write_object(fileobj, pos, object_number, byte_string))

write_new_object ==
    /\ MayWrite
    /\ DoWriteNew(next_object_number, Content("dict", Len(calls) + 1))

Read(n, r) ==
    /\ result' = Result("read", r.st, n, r.val)
    /\ pos' = r.pos
    /\ UNCHANGED <<layout, fileobj, objects_offsets, startxref, info,
                   catalog, page_tree, pages, finished,
                   overwritten_objects_offsets, new_objects_offsets, calls,
                   bm, gm>>

\* read_object(n), called by a client between the writes of the session
ReadObject ==
    /\ ~finished
    /\ result.op # "read"
    /\ \E n \in 1..Len(objects_offsets) :
           Read(n, read_object(fileobj, objects_offsets, n))

(***************************************************************************)
(* PDFFile.finish                                                          *)
(***************************************************************************)
MinKey(keys) == CHOOSE k \in keys : \A m \in keys : k <= m

\* the items of d with a key in keys, by ascending key
RECURSIVE Ascending(_, _)
Ascending(d, keys) ==
    IF keys = {} THEN <<>>
    ELSE <<d[DictGet(d, MinKey(keys))]>>
         \o Ascending(d, keys \ {MinKey(keys)})

\* iteritems(dict): the orders in which the items may be enumerated.  The
\* code runs on Python 2 and 3 (compat.iteritems) and the order of a dict is
\* the interpreter's: the order of first insertion (CPython 3.7 and later) or
\* the order of the hash table, which for object numbers below 8 is the
\* ascending one (CPython 2 and 3.0 to 3.5).  Both are possible outcomes.
iteritems(d) == {d, Ascending(d, DictKeys(d))}

\* '{0} 1\n{1:010} 00000 n \n' for each overwritten object, in order
RECURSIVE OverwrittenSubsections(_)
OverwrittenSubsections(items) ==
    IF items = <<>> THEN <<>>
    ELSE <<Line("sub", <<Head(items).key, 1>>),
           Line("entry", <<Head(items).value>>)>>
         \o OverwrittenSubsections(Tail(items))

\* if self.new_objects_offsets: '{0} {1}\n' and one '{0:010} 00000 n \n' each
NewSubsection(first_new_object, offs) ==
    IF offs = <<>> THEN <<>>
    ELSE <<Line("sub", <<first_new_object, Len(offs)>>)>>
         \o [i \in 1..Len(offs) |-> Line("entry", <<offs[i]>>)]

\* a trailer whose Size is the highest object number
TrailerLinesHighest(size, root, info_, prev, new_startxref) ==
    <<Line("trailer", <<>>), Line("tdict", <<size - 1, root, info_, prev>>),
      Line("startxref", <<>>), Line("num", <<new_startxref>>),
      Line("eof", <<>>)>>

\* 'trailer\n<< /Size .. /Root .. 0 R /Info .. 0 R /Prev .. >>\nstartxref\n..'
TrailerLines(size, root, info_, prev, new_startxref) ==
    <<Line("trailer", <<>>), Line("tdict", <<size, root, info_, prev>>),
      Line("startxref", <<>>), Line("num", <<new_startxref>>),
      Line("eof", <<>>)>>

\* a trailer that chains to itself and ends on the original startxref
FinishLinesSelfChained(items, new_startxref) ==
    <<Line("xref", <<>>)>>
    \o OverwrittenSubsections(items)
    \o NewSubsection(Len(objects_offsets) + 1, new_objects_offsets)
    \o <<Line("trailer", <<>>),
         Line("tdict", <<next_object_number, catalog.object_number,
                         info.object_number, new_startxref>>),
         Line("startxref", <<>>), Line("num", <<startxref>>),
         Line("eof", <<>>)>>

FinishLines(items, new_startxref) ==
    <<Line("xref", <<>>)>>
    \o OverwrittenSubsections(items)
    \o NewSubsection(Len(objects_offsets) + 1, new_objects_offsets)
    \o TrailerLines(next_object_number, catalog.object_number,
                    info.object_number, startxref, new_startxref)

Finished(w) ==
    /\ finished' = TRUE
    /\ fileobj' = w.file
    /\ pos' = w.pos
    /\ result' = Result("finish", "ok", 0, NoBytes)
    /\ calls' = Append(calls, Call("finish", 0, NoBytes))
    /\ UNCHANGED <<layout, objects_offsets, startxref, info, catalog,
                   page_tree, pages, overwritten_objects_offsets,
                   new_objects_offsets, bm, gm>>

DoFinish(at, items) ==
    Finished(WriteAt(fileobj, at, FinishLines(items, OffsetOf(fileobj, at))))

finish ==
    /\ Cardinality(Finishes) < MaxFinish
    /\ result.op # "read"
    /\ IF ~CanWrite THEN Raise("finish")
       ELSE \E items \in iteritems(overwritten_objects_offsets) :
                DoFinish(SeekEnd(fileobj, pos), items)

(***************************************************************************)
(* process_bookmarks.  bm holds the input list (the declared levels; the   *)
(* label of entry j is j), the number of entries processed and the locals  *)
(* of the function.  A node is referred to by its index, 0 for the root;   *)
(* None is -1.                                                             *)
(***************************************************************************)
None == -1

Bookmark(parent, label) ==
    [Count |-> 0, First |-> None, Last |-> None, Prev |-> None,
     Next |-> None, Parent |-> parent, label |-> label]

\* list[j] in Python: the 1-based position of index j, 0 for an IndexError
PyIndex(len, j) ==
    IF 0 <= j /\ j < len THEN j + 1
    ELSE IF j < 0 /\ -len <= j THEN len + j + 1
    ELSE 0

\* del list[j:]
PyDelFrom(list, j) ==
    IF j >= 0 THEN SubSeq(list, 1, IF j < Len(list) THEN j ELSE Len(list))
    ELSE SubSeq(list, 1, IF Len(list) + j > 0 THEN Len(list) + j ELSE 0)

RECURSIVE Sum(_)
Sum(list) == IF list = <<>> THEN 0 ELSE Head(list) + Sum(Tail(list))

\* k = 0; while k < n: k += 1 + level_shifts.pop()
RECURSIVE PopShifts(_, _, _)
PopShifts(level_shifts, k, n) ==
    IF ~(k < n) THEN [ok |-> TRUE, level_shifts |-> level_shifts]
    ELSE IF level_shifts = <<>> THEN [ok |-> FALSE, level_shifts |-> <<>>]
    ELSE PopShifts(SubSeq(level_shifts, 1, Len(level_shifts) - 1),
                   k + 1 + level_shifts[Len(level_shifts)], n)

BookmarksStart(raw) ==
    [raw |-> raw, i |-> 0, err |-> "none",
     root |-> Bookmark(None, 0), bookmark_list |-> <<>>,
     level_shifts |-> <<>>, last_by_level |-> <<0>>,
     indices_by_level |-> <<0>>]

\* node x of the state: the root or an entry of bookmark_list
NodeOf(st, x) == IF x = 0 THEN st.root ELSE st.bookmark_list[x]

\* node[key] = value, on the node object with index x
SetKey(st, x, key, value) ==
    IF x = 0 THEN [st EXCEPT !.root[key] = value]
    ELSE [st EXCEPT !.bookmark_list[x][key] = value]

IndexError(st) == [st EXCEPT !.err = "IndexError"]

\* last_by_level.append(bookmark); indices_by_level.append(i);
\* bookmark_list.append(bookmark)
AppendBookmark(st, bookmark) ==
    [st EXCEPT !.i = st.i + 1,
               !.last_by_level = Append(st.last_by_level, st.i + 1),
               !.indices_by_level = Append(st.indices_by_level, st.i + 1),
               !.bookmark_list = Append(st.bookmark_list, bookmark)]

\* the appends without the assignment of Last
SetLastSkipped(st, level, bookmark) ==
    [st EXCEPT !.i = st.i + 1,
               !.last_by_level = Append(st.last_by_level, st.i + 1),
               !.indices_by_level = Append(st.indices_by_level, st.i + 1),
               !.bookmark_list = Append(st.bookmark_list, bookmark)]

\* last_by_level[level - 1]['Last'] = i
SetLast(st, level, bookmark) ==
    IF PyIndex(Len(st.last_by_level), level - 1) = 0 THEN IndexError(st)
    ELSE AppendBookmark(
             SetKey(st, st.last_by_level[
                            PyIndex(Len(st.last_by_level), level - 1)],
                    "Last", st.i + 1),
             bookmark)

\* counting the new bookmark on its parent only
CountUpParentOnly(st, count_level, level) ==
    IF level - 1 >= Len(st.last_by_level) THEN [st EXCEPT !.err = "IndexError"]
    ELSE IF st.last_by_level[level] = 0
        THEN [st EXCEPT !.root.Count = st.root.Count + 1]
    ELSE [st EXCEPT !.bookmark_list[st.last_by_level[level]].Count =
                        st.bookmark_list[st.last_by_level[level]].Count + 1]

\* for count_level in range(level): last_by_level[count_level]['Count'] += 1
RECURSIVE CountUp(_, _, _)
CountUp(st, count_level, level) ==
    IF count_level >= level THEN st
    ELSE IF count_level >= Len(st.last_by_level) THEN IndexError(st)
    ELSE CountUp(SetKey(st, st.last_by_level[count_level + 1], "Count",
                        NodeOf(st, st.last_by_level[count_level + 1]).Count + 1),
                 count_level + 1, level)

Counted(st, level, bookmark) ==
    IF st.err # "none" THEN st ELSE SetLast(st, level, bookmark)

\* the else branch: the bookmark is sibling of indices_by_level[level]
Sibling(st, level, bookmark) ==
    IF PyIndex(Len(st.indices_by_level), level) = 0 THEN IndexError(st)
    ELSE Counted(
        CountUp([SetKey(st,
                        st.last_by_level[PyIndex(Len(st.last_by_level), level)],
                        "Next", st.i + 1)
                    EXCEPT !.last_by_level = PyDelFrom(st.last_by_level, level),
                           !.indices_by_level =
                               PyDelFrom(st.indices_by_level, level)],
                0, level),
        level,
        [bookmark EXCEPT !.Prev =
            st.indices_by_level[PyIndex(Len(st.indices_by_level), level)]])

\* the if branch: last_by_level[level - 1]['First'] = i
FirstChild(st, level, bookmark) ==
    Counted(CountUp(SetKey(st,
                           st.last_by_level[
                               PyIndex(Len(st.last_by_level), level - 1)],
                           "First", st.i + 1),
                    0, level),
            level, bookmark)

\* bookmark = {... 'Parent': indices_by_level[level - 1] ...} and the linking
Link(st, level) ==
    IF PyIndex(Len(st.indices_by_level), level - 1) = 0 THEN IndexError(st)
    ELSE IF level > Len(st.last_by_level) - 1
        THEN FirstChild(st, level,
                 Bookmark(st.indices_by_level[
                              PyIndex(Len(st.indices_by_level), level - 1)],
                          st.i + 1))
    ELSE Sibling(st, level,
             Bookmark(st.indices_by_level[
                          PyIndex(Len(st.indices_by_level), level - 1)],
                      st.i + 1))

\* level -= sum(level_shifts)
Resolve(st, level, level_shifts) ==
    Link([st EXCEPT !.level_shifts = level_shifts], level - Sum(level_shifts))

Popped(st, level, popped) ==
    IF ~popped.ok THEN IndexError(st)
    ELSE Resolve(st, level, popped.level_shifts)

\* a deeper bookmark taken at its declared level, no shift recorded
CompensateNoShift(st, level, previous_level) ==
    IF level > previous_level THEN Resolve(st, level, st.level_shifts)
    ELSE Popped(st, level,
                PopShifts(st.level_shifts, 0, previous_level - level))

\* the real level of the bookmark
Compensate(st, level, previous_level) ==
    IF level > previous_level
    THEN Resolve(st, level,
                 Append(st.level_shifts, level - previous_level - 1))
    ELSE Popped(st, level,
                PopShifts(st.level_shifts, 0, previous_level - level))

\* one iteration of the loop of process_bookmarks, on entry i + 1
Iteration(st) ==
    Compensate(st, st.raw[st.i + 1],
               Len(st.last_by_level) - 1 + Sum(st.level_shifts))

process_bookmark ==
    /\ bm.err = "none"
    /\ bm.i < Len(bm.raw)
    /\ bm' = Iteration(bm)
    /\ UNCHANGED <<storeVars, gm>>

\* the lists of declared levels given to process_bookmarks
RawBookmarks ==
    UNION {[1..n -> 1..MaxLevel] : n \in 0..MaxBookmarks}

(***************************************************************************)
(* write_pdf_metadata, on a document without links: the Info dictionary,   *)
(* then the outline (if there are bookmarks) and finish.  The bookmarks    *)
(* are those process_bookmarks returned; the calls made so far tell where  *)
(* the function stands.                                                    *)
(***************************************************************************)
\* process_bookmarks(raw_bookmarks) as a whole: the loop run to its end
RECURSIVE process_bookmarks(_)
process_bookmarks(st) ==
    IF st.err # "none" \/ st.i >= Len(st.raw) THEN st
    ELSE process_bookmarks(Iteration(st))

\* if bookmark[key]: None and 0 are false
Truthy(value) == value # None /\ value # 0

\* '/{0} {1} 0 R\n' for a key of the bookmark that is true
RefLine(key, bookmark, bookmark_root) ==
    IF Truthy(bookmark[key])
    THEN <<Line(key, <<bookmark[key] + bookmark_root>>)>>
    ELSE <<>>

\* the content list of a bookmark, joined
BookmarkContent(bookmark, bookmark_root) ==
    ByteString(
        <<Line("title", <<bookmark.label>>)>>
        \o (IF Truthy(bookmark.Count)
            THEN <<Line("count", <<bookmark.Count>>)>> ELSE <<>>)
        \o RefLine("Parent", bookmark, bookmark_root)
        \o RefLine("Prev", bookmark, bookmark_root)
        \o RefLine("Next", bookmark, bookmark_root)
        \o RefLine("First", bookmark, bookmark_root)
        \o RefLine("Last", bookmark, bookmark_root)
        \o <<Line("goto", <<>>), Line("close", <<>>)>>,
        FALSE)

\* '<< /Type /Outlines /Count {0} /First {1} 0 R /Last {2} 0 R\n>>'
OutlinesContent(root, bookmark_root) ==
    ByteString(<<Line("outlines", <<root.Count, root.First + bookmark_root,
                                    root.Last + bookmark_root>>),
                 Line("close", <<>>)>>, FALSE)

\* '<< /Producer {producer!P} >>'
ProducerContent == ByteString(<<Line("producer", <<>>)>>, FALSE)

\* pdf.overwrite_object(pdf.info.object_number, ..)
metadata_info ==
    /\ calls = <<>>
    /\ DoOverwrite("overwrite", info.object_number, ProducerContent)

\* bookmark_root = pdf.next_object_number(); pdf.write_new_object(..)
metadata_outlines ==
    /\ Len(calls) = 1
    /\ ~finished
    /\ bm.bookmark_list # <<>>
    /\ DoWriteNew(next_object_number,
                  OutlinesContent(bm.root, next_object_number))

\* pdf.extend_dict(pdf.catalog, '/Outlines {0} 0 R /PageMode /UseOutlines')
metadata_catalog ==
    /\ Len(calls) = 2
    /\ ~finished
    /\ IF ~EndsWithClose(catalog.byte_string) THEN Raise("extend")
       ELSE DoOverwrite("extend", catalog.object_number,
                        Spliced(catalog.byte_string,
                                Line("outlineref", <<calls[2].n>>)))

\* for bookmark in bookmarks: pdf.write_new_object(b''.join(content))
metadata_bookmark ==
    /\ Len(calls) >= 3
    /\ ~finished
    /\ Len(calls) - 3 < Len(bm.bookmark_list)
    /\ DoWriteNew(next_object_number,
                  BookmarkContent(bm.bookmark_list[Len(calls) - 2],
                                  calls[2].n))

\* pdf.finish()
metadata_finish ==
    /\ ~finished
    /\ \/ Len(calls) = 1 /\ bm.bookmark_list = <<>>
       \/ Len(calls) = 3 + Len(bm.bookmark_list)
    /\ \E items \in iteritems(overwritten_objects_offsets) :
           DoFinish(SeekEnd(fileobj, pos), items)

(***************************************************************************)
(* gather_metadata.  A document is the list of its page boxes; a box has a *)
(* link (style.link: a type and a href, type "none" for None), an anchor   *)
(* (style.anchor, "" for none) and children.  The border-box position of a *)
(* box is modelled by its path, the child indices leading to it from its   *)
(* page.  The boxes explored carry no bookmark label: the bookmark list    *)
(* gathered is empty.                                                      *)
(***************************************************************************)
NoLink == [type |-> "none", href |-> ""]

LinkValues ==
    {NoLink, [type |-> "external", href |-> "u"],
     [type |-> "internal", href |-> "a"], [type |-> "internal", href |-> "b"]}

AnchorValues == {"", "a"}

Box(link, anchor, children) ==
    [link |-> link, anchor |-> anchor, children |-> children]

NoAnchors == [name \in {} |-> <<>>]

\* the locals of gather_metadata
Gathering(page_links, links_by_page, anchors) ==
    [page_links |-> page_links, links_by_page |-> links_by_page,
     anchors |-> anchors]

\* if box.style.link: page_links.append((box, rectangle))
Linked(st, box, path) ==
    IF box.link.type = "none" THEN st
    ELSE [st EXCEPT !.page_links =
              Append(st.page_links, [link |-> box.link, rectangle |-> path])]

\* a dict of anchors in which the box seen last replaces the first
AnchoredLast(st, box, page_index, path) ==
    IF box.anchor = "" THEN st
    ELSE [st EXCEPT !.anchors =
              [name \in DOMAIN st.anchors \cup {box.anchor} |->
                  IF name = box.anchor THEN <<page_index, path>>
                  ELSE st.anchors[name]]]

\* if box.style.anchor and box.style.anchor not in anchors: anchors[..] = ..
Anchored(st, box, page_index, path) ==
    IF box.anchor = "" \/ box.anchor \in DOMAIN st.anchors THEN st
    ELSE [st EXCEPT !.anchors =
              [name \in DOMAIN st.anchors \cup {box.anchor} |->
                  IF name = box.anchor THEN <<page_index, path>>
                  ELSE st.anchors[name]]]

\* walk(box), and its loop over box.children from child k on
RECURSIVE walk(_, _, _, _)
RECURSIVE walk_children(_, _, _, _, _)
walk(st, box, page_index, path) ==
    walk_children(Anchored(Linked(st, box, path), box, page_index, path),
                  box.children, 1, page_index, path)

walk_children(st, children, k, page_index, path) ==
    IF k > Len(children) THEN st
    ELSE walk_children(walk(st, children[k], page_index, Append(path, k)),
                       children, k + 1, page_index, path)

\* links_by_page.append(page_links)
PageDone(st) ==
    [st EXCEPT !.links_by_page = Append(st.links_by_page, st.page_links)]

\* for page_index, page in enumerate(document.pages), from page k on
RECURSIVE walk_pages(_, _, _)
walk_pages(st, document, k) ==
    IF k > Len(document) THEN st
    ELSE walk_pages(
             PageDone(walk([st EXCEPT !.page_links = <<>>], document[k],
                           k - 1, <<>>)),
             document, k + 1)

\* the loop over page_links, from link k on
RECURSIVE resolve_links(_, _, _, _)
resolve_links(page_links, anchors, k, resolved_page_links) ==
    IF k > Len(page_links) THEN resolved_page_links
    ELSE IF page_links[k].link.type = "internal"
        THEN (IF page_links[k].link.href \notin DOMAIN anchors
              THEN resolve_links(page_links, anchors, k + 1,
                                 resolved_page_links)
              ELSE resolve_links(page_links, anchors, k + 1,
                       Append(resolved_page_links,
                              [type |-> "internal",
                               target |-> anchors[page_links[k].link.href],
                               rectangle |-> page_links[k].rectangle])))
    ELSE resolve_links(page_links, anchors, k + 1,
             Append(resolved_page_links,
                    [type |-> page_links[k].link.type,
                     target |-> page_links[k].link.href,
                     rectangle |-> page_links[k].rectangle]))

\* the state of a run of gather_metadata
Gather(document, pc, links_by_page, anchors, resolved) ==
    [document |-> document, pc |-> pc, links_by_page |-> links_by_page,
     anchors |-> anchors, resolved_links_by_page |-> resolved]

NoDocument == Gather(<<>>, "idle", <<>>, NoAnchors, <<>>)

Walked(document, st) ==
    Gather(document, "walked", st.links_by_page, st.anchors, <<>>)

\* the first loop of gather_metadata: the walk of every page
gather_walk ==
    /\ gm.pc = "start"
    /\ gm' = Walked(gm.document,
                    walk_pages(Gathering(<<>>, <<>>, NoAnchors),
                               gm.document, 1))
    /\ UNCHANGED <<storeVars, bm>>

\* the second loop: the resolution of the links, and the return
gather_resolve ==
    /\ gm.pc = "walked"
    /\ gm' = [gm EXCEPT
                 !.pc = "done",
                 !.resolved_links_by_page =
                     [p \in 1..Len(gm.links_by_page) |->
                         resolve_links(gm.links_by_page[p], gm.anchors, 1,
                                       <<>>)]]
    /\ bm' = BookmarksStart(<<>>)
    /\ UNCHANGED storeVars

\* the ordered forests of n boxes, and the boxes with n - 1 descendants
RECURSIVE Forests(_)
RECURSIVE Trees(_)
Trees(n) ==
    {Box(link, anchor, children) :
        link \in LinkValues, anchor \in AnchorValues,
        children \in Forests(n - 1)}

Forests(n) ==
    IF n = 0 THEN {<<>>}
    ELSE UNION {{<<tree>> \o rest : tree \in Trees(k), rest \in Forests(n - k)} :
                   k \in 1..n}

\* the documents of two pages with MaxBoxes boxes at most
Documents ==
    UNION {{<<Box(NoLink, "", first), Box(NoLink, "", second)>> :
               first \in Forests(nm[1]), second \in Forests(nm[2])} :
              nm \in {p \in (0..MaxBoxes) \X (0..MaxBoxes) :
                         p[1] + p[2] <= MaxBoxes}}

(***************************************************************************)
(* The session: construction on an input PDF, then any calls.              *)
(***************************************************************************)
NoBookmarks == BookmarksStart(<<>>)

Constructed(st) ==
    /\ st.ok
    /\ startxref = st.startxref
    /\ objects_offsets = st.objects_offsets
    /\ info = st.info
    /\ catalog = st.catalog
    /\ page_tree = st.page_tree
    /\ pages = st.pages
    /\ pos = st.pos

StoreInit ==
    /\ layout \in Layouts
    /\ fileobj = OrigFile(layout)
    /\ Constructed(PDFFile_init(fileobj))
    /\ finished = FALSE
    /\ overwritten_objects_offsets = <<>>
    /\ new_objects_offsets = <<>>
    /\ result = Result("init", "ok", 0, NoBytes)
    /\ calls = <<>>

Init == StoreInit /\ bm = NoBookmarks /\ gm = NoDocument

Next ==
    \/ overwrite_object
    \/ extend_dict
    \/ write_new_object
    \/ ReadObject
    \/ finish

Spec == Init /\ [][Next]_vars

\* process_bookmarks on every list of RawBookmarks, one iteration per step
InitBookmarks ==
    /\ bm \in {BookmarksStart(raw) : raw \in RawBookmarks}
    /\ gm = NoDocument
    /\ layout = 0
    /\ fileobj = <<>>
    /\ pos = 1
    /\ objects_offsets = <<>>
    /\ startxref = 0
    /\ info = NoDict
    /\ catalog = NoDict
    /\ page_tree = NoDict
    /\ pages = <<>>
    /\ finished = FALSE
    /\ overwritten_objects_offsets = <<>>
    /\ new_objects_offsets = <<>>
    /\ result = Result("init", "ok", 0, NoBytes)
    /\ calls = <<>>

NextBookmarks == process_bookmark

SpecBookmarks == InitBookmarks /\ [][NextBookmarks]_vars

(***************************************************************************)
(* read_object alone, on any small file and any table of offsets at which  *)
(* a line of the file begins (or the file ends).                           *)
(***************************************************************************)
ReadLines ==
    {Line("obj", <<1>>), Line("obj", <<2>>), Line("data", <<1>>),
     Line("close", <<>>), Line("endobj", <<>>)}

ReadFiles == UNION {[1..n -> ReadLines] : n \in 1..MaxLines}

LineStarts(f) == {OffsetOf(f, i) : i \in 1..(Len(f) + 1)}

InitRead ==
    /\ fileobj \in ReadFiles
    /\ objects_offsets \in [1..2 -> LineStarts(fileobj)]
    /\ layout = 0
    /\ pos = 1
    /\ startxref = 0
    /\ info = NoDict
    /\ catalog = NoDict
    /\ page_tree = NoDict
    /\ pages = <<>>
    /\ finished = FALSE
    /\ overwritten_objects_offsets = <<>>
    /\ new_objects_offsets = <<>>
    /\ result = Result("init", "ok", 0, NoBytes)
    /\ calls = <<>>
    /\ bm = NoBookmarks
    /\ gm = NoDocument

NextRead == ReadObject

SpecRead == InitRead /\ [][NextRead]_vars

\* gather_metadata on every document of Documents
InitGather ==
    /\ gm \in {Gather(document, "start", <<>>, NoAnchors, <<>>) :
                  document \in Documents}
    /\ bm = NoBookmarks
    /\ layout = 0
    /\ fileobj = <<>>
    /\ pos = 1
    /\ objects_offsets = <<>>
    /\ startxref = 0
    /\ info = NoDict
    /\ catalog = NoDict
    /\ page_tree = NoDict
    /\ pages = <<>>
    /\ finished = FALSE
    /\ overwritten_objects_offsets = <<>>
    /\ new_objects_offsets = <<>>
    /\ result = Result("init", "ok", 0, NoBytes)
    /\ calls = <<>>

NextGather == gather_walk \/ gather_resolve

SpecGather == InitGather /\ [][NextGather]_vars

\* write_pdf_metadata on each input PDF, with every list of bookmarks that
\* gather_metadata returns (process_bookmarks did not raise)
InitMetadata ==
    /\ StoreInit
    /\ bm \in {built \in {process_bookmarks(BookmarksStart(raw)) :
                             raw \in RawBookmarks} : built.err = "none"}
    /\ gm = NoDocument

NextMetadata ==
    \/ metadata_info
    \/ metadata_outlines
    \/ metadata_catalog
    \/ metadata_bookmark
    \/ metadata_finish

SpecMetadata == InitMetadata /\ [][NextMetadata]_vars

(***************************************************************************)
(* Reading the file back as a PDF reader does: the cross-reference         *)
(* sections chained by Prev, the section written last searched first.      *)
(* tab is the table of the byte offsets at which the lines of f begin.     *)
(***************************************************************************)
RECURSIVE OffsetsFrom(_, _, _)
OffsetsFrom(f, i, at) ==
    IF i > Len(f) THEN <<at>>
    ELSE <<at>> \o OffsetsFrom(f, i + 1, at + ByteLen(f[i]))

\* the offsets of lines 1..Len(f) and, last, the length of f in bytes
OffsetTable(f) == OffsetsFrom(f, 1, 0)

\* index of the line that begins at byte offset off, 0 if there is none
LineOf(tab, off) ==
    IF \E i \in 1..Len(tab) : tab[i] = off
    THEN CHOOSE i \in 1..Len(tab) : tab[i] = off
    ELSE 0

\* the offset of object n in the section whose subsections begin at line i
RECURSIVE SectionLookup(_, _, _)
SectionLookup(f, i, n) ==
    IF i > Len(f) THEN -1
    ELSE IF f[i].k # "sub" THEN -1
    ELSE IF f[i].v[1] <= n /\ n < f[i].v[1] + f[i].v[2]
        THEN (IF f[i + 1 + (n - f[i].v[1])].k = "entry"
              THEN f[i + 1 + (n - f[i].v[1])].v[1] ELSE -1)
    ELSE SectionLookup(f, i + 1 + f[i].v[2], n)

\* the line that follows the subsections beginning at line i
RECURSIVE AfterSubsections(_, _)
AfterSubsections(f, i) ==
    IF i > Len(f) THEN i
    ELSE IF f[i].k # "sub" THEN i
    ELSE AfterSubsections(f, i + 1 + f[i].v[2])

\* the subsections beginning at line i
RECURSIVE Subsections(_, _)
Subsections(f, i) ==
    IF i > Len(f) THEN <<>>
    ELSE IF f[i].k # "sub" THEN <<>>
    ELSE <<[first |-> f[i].v[1],
            offs |-> [j \in 1..f[i].v[2] |-> f[i + j].v[1]],
            entries |-> \A j \in 1..f[i].v[2] : f[i + j].k = "entry"]>>
         \o Subsections(f, i + 1 + f[i].v[2])

\* the value of the last startxref of the file
LastStartxref(f) == f[Len(f) - 1].v[1]

\* the offset of object n in the section whose `xref' is line x, -1 if none
LookupAt(f, x, n) ==
    IF x = 0 \/ x > Len(f) THEN -1
    ELSE IF f[x].k # "xref" THEN -1
    ELSE SectionLookup(f, x + 1, n)

\* the Prev of the section whose `xref' is line x, -1 if it has none
PrevOf(f, x) ==
    IF x = 0 \/ x > Len(f) THEN -1
    ELSE IF AfterSubsections(f, x + 1) + 1 > Len(f) THEN -1
    ELSE IF f[AfterSubsections(f, x + 1) + 1].k # "tdict" THEN -1
    ELSE f[AfterSubsections(f, x + 1) + 1].v[4]

\* the offset of object n: the section at line x first, then the one its
\* Prev names
Resolve2(f, tab, x, n, found) ==
    IF found # -1 THEN found
    ELSE IF PrevOf(f, x) = -1 THEN -1
    ELSE LookupAt(f, LineOf(tab, PrevOf(f, x)), n)

ResolveAt(f, tab, x, n) == Resolve2(f, tab, x, n, LookupAt(f, x, n))

\* lines ls stand in f from line i on
LinesAt(f, i, ls) ==
    /\ i > 0
    /\ i + Len(ls) - 1 <= Len(f)
    /\ \A j \in 1..Len(ls) : f[i + j - 1] = ls[j]

\* lines ls stand in f at byte offset off
ObjectAt(f, tab, off, ls) == LinesAt(f, LineOf(tab, off), ls)

(***************************************************************************)
(* The input file of each layout and what it declares.                     *)
(***************************************************************************)
OrigFiles == [lay \in Layouts |-> OrigFile(lay)]

OrigTables == [lay \in Layouts |-> OffsetTable(OrigFiles[lay])]

OrigLen == Len(OrigFiles[layout])

OrigBytes == OrigTables[layout][OrigLen + 1]

OrigStartxref == LastStartxref(OrigFiles[layout])

OrigSize == OrigFiles[layout][OrigLen - 3].v[1]

\* the offsets the cross-reference table of the input gives its objects
OrigOffsetsOf ==
    [lay \in Layouts |->
        [n \in 1..OrigCount(lay) |->
            LookupAt(OrigFiles[lay],
                     LineOf(OrigTables[lay], LastStartxref(OrigFiles[lay])),
                     n)]]

OrigOffsets == OrigOffsetsOf[layout]

(***************************************************************************)
(* What the session asked for, from the history of its calls.              *)
(***************************************************************************)
WriteOps == {"overwrite", "extend", "new"}

WritesOf(n) == {i \in 1..Len(calls) : calls[i].op \in WriteOps /\ calls[i].n = n}

OverwritesOf(n) ==
    {i \in 1..Len(calls) : calls[i].op \in {"overwrite", "extend"} /\ calls[i].n = n}

NewCalls == {i \in 1..Len(calls) : calls[i].op = "new"}

OverwrittenNumbers ==
    {calls[i].n : i \in {j \in 1..Len(calls) : calls[j].op \in {"overwrite", "extend"}}}

Latest(S) == CHOOSE i \in S : \A j \in S : j <= i

Earliest(S) == CHOOSE i \in S : \A j \in S : i <= j

\* the lines of object n as the session last wrote it, or as the input has it
ExpectedLines(n) ==
    <<Line("obj", <<n>>)>>
    \o (IF WritesOf(n) = {} THEN OrigBody(layout, n) \o <<Line("endobj", <<>>)>>
        ELSE BodyLines(calls[Latest(WritesOf(n))].b))

\* the trailer dictionary and the subsections of the section finish wrote
NewTrailer == fileobj[Len(fileobj) - 3]

NewXrefLine(tab) == LineOf(tab, LastStartxref(fileobj))

NewSubsections(tab) == Subsections(fileobj, NewXrefLine(tab) + 1)

(***************************************************************************)
(* C1.  After finish, resolving an object number through the new section   *)
(* first and the original table (via Prev) second gives, for every number  *)
(* from 1 to Size-1, an offset where the header of that object stands,     *)
(* followed by the content most recently written for it (the original body *)
(* if it was never written).                                               *)
(***************************************************************************)
C1_ResolvesToLatest ==
    finished =>
        LET tab == OffsetTable(fileobj)
            x == NewXrefLine(tab)
        IN  \A n \in 1..(NewTrailer.v[1] - 1) :
                ObjectAt(fileobj, tab, ResolveAt(fileobj, tab, x, n),
                         ExpectedLines(n))

\* a finished session that overwrote one object twice and wrote a new one
C1_Witness ==
    /\ finished
    /\ \E n \in OverwrittenNumbers : Cardinality(OverwritesOf(n)) >= 2
    /\ NewCalls # {}

(***************************************************************************)
(* C2.  Every call only appends: the file never shrinks, what it held      *)
(* before a step (the original bytes in particular) is an unchanged prefix *)
(* of what it holds after, and until finish has completed nothing after    *)
(* the original bytes is a cross-reference section, a trailer or a         *)
(* startxref, while every entry of the original table points into the      *)
(* original bytes: no cross-reference entry names an appended object.      *)
(***************************************************************************)
SectionKinds ==
    {"xref", "sub", "free", "entry", "trailer", "tdict", "startxref", "num",
     "eof"}

C2_AppendOnly ==
    [][/\ Len(fileobj') >= Len(fileobj)
       /\ \A i \in 1..Len(fileobj) : fileobj'[i] = fileobj[i]
       /\ Len(fileobj') >= OrigLen
       /\ \A i \in 1..OrigLen : fileobj'[i] = OrigFiles[layout][i]
       /\ ~finished' =>
              /\ \A i \in (OrigLen + 1)..Len(fileobj') :
                     fileobj'[i].k \notin SectionKinds
              /\ \A n \in 1..OrigCount(layout) :
                     0 <= OrigOffsets[n] /\ OrigOffsets[n] < OrigBytes]_vars

\* an unfinished session that has appended an overwrite and a new object
C2_Witness ==
    /\ ~finished
    /\ OverwrittenNumbers # {}
    /\ NewCalls # {}
    /\ Len(fileobj) > OrigLen

(***************************************************************************)
(* C3.  Once finish has completed, a call of overwrite_object,             *)
(* extend_dict, write_new_object or finish fails with AssertionError,      *)
(* appends no byte and leaves both offset maps as they were.               *)
(***************************************************************************)
C3_WriteOnce ==
    [][(finished /\ result'.op \in {"overwrite", "extend", "new", "finish"}) =>
           /\ result'.st = "AssertionError"
           /\ fileobj' = fileobj
           /\ overwritten_objects_offsets' = overwritten_objects_offsets
           /\ new_objects_offsets' = new_objects_offsets
           /\ finished']_vars

\* a call has failed on a finished store that had written objects
C3_Witness ==
    /\ finished
    /\ result.st = "AssertionError"
    /\ result.op \in {"overwrite", "extend", "new", "finish"}
    /\ overwritten_objects_offsets # <<>>
    /\ new_objects_offsets # <<>>

(***************************************************************************)
(* C4.  The j-th write_new_object of a session is given the number         *)
(* (original objects + j), whatever overwrites are interleaved: a number   *)
(* above every original one and above every one given before.  finish      *)
(* emits for the new objects exactly one subsection, headed by the first   *)
(* new number and their count, with the offsets of the new objects in the  *)
(* order of the calls (and no such subsection when there is none).         *)
(***************************************************************************)
NewBefore(i) == Cardinality({k \in NewCalls : k <= i})

NthNew(j) == CHOOSE i \in NewCalls : NewBefore(i) = j

IsNewSubsection(sub) == sub.first > OrigCount(layout)

NewObjectSubsections(tab) == SelectSeq(NewSubsections(tab), IsNewSubsection)

\* the subsection news is the one of the new objects, in call order
NewSubsectionOk(tab, news) ==
    /\ Len(news) = 1
    /\ news[1].first = OrigCount(layout) + 1
    /\ news[1].entries
    /\ Len(news[1].offs) = Cardinality(NewCalls)
    /\ \A j \in 1..Cardinality(NewCalls) :
           ObjectAt(fileobj, tab, news[1].offs[j],
                    <<Line("obj", <<OrigCount(layout) + j>>)>>
                    \o BodyLines(calls[NthNew(j)].b))

C4_NewNumbers ==
    /\ \A i \in NewCalls : calls[i].n = OrigCount(layout) + NewBefore(i)
    /\ (result.op = "new" /\ result.st = "ok") =>
           result.num = OrigCount(layout) + Cardinality(NewCalls)
    /\ finished =>
           LET tab == OffsetTable(fileobj)
               news == NewObjectSubsections(tab)
           IN  IF NewCalls = {} THEN news = <<>>
               ELSE NewSubsectionOk(tab, news)

\* a finished session with two new objects and an overwrite between them
C4_Witness ==
    /\ finished
    /\ Cardinality(NewCalls) = 2
    /\ \E i \in 1..Len(calls) :
           /\ calls[i].op \in {"overwrite", "extend"}
           /\ NthNew(1) < i
           /\ i < NthNew(2)

(***************************************************************************)
(* C5.  The Size of the trailer finish writes is the Size of the original  *)
(* table (its entry for object 0 included) plus the number of new objects: *)
(* the number the next write_new_object would have been given.             *)
(***************************************************************************)
C5_TrailerSize ==
    finished =>
        /\ NewTrailer.k = "tdict"
        /\ NewTrailer.v[1] = OrigSize + Cardinality(NewCalls)
        /\ NewTrailer.v[1] =
               (Len(objects_offsets) + 1) + Len(new_objects_offsets)
        /\ NewTrailer.v[1] = next_object_number

\* a finished session with new objects and overwritten ones
C5_Witness ==
    /\ finished
    /\ Cardinality(NewCalls) >= 2
    /\ OverwrittenNumbers # {}

(***************************************************************************)
(* C6.  The step in which finish completes appends, at the length the file *)
(* had, an `xref' line, and ends the file with a trailer whose Root and    *)
(* Info are the numbers of the input's catalog and Info dictionary and     *)
(* whose Prev is the input's startxref, then `startxref', the offset of    *)
(* that `xref' line, and the end-of-file marker.                           *)
(***************************************************************************)
C6_Trailer ==
    [][(~finished /\ finished') =>
           /\ Len(fileobj') >= Len(fileobj) + 6
           /\ fileobj'[Len(fileobj) + 1].k = "xref"
           /\ fileobj'[Len(fileobj') - 4].k = "trailer"
           /\ fileobj'[Len(fileobj') - 3].k = "tdict"
           /\ fileobj'[Len(fileobj') - 3].v[2] = RootNo(layout)
           /\ fileobj'[Len(fileobj') - 3].v[3] = InfoNo(layout)
           /\ fileobj'[Len(fileobj') - 3].v[4] = OrigStartxref
           /\ fileobj'[Len(fileobj') - 2].k = "startxref"
           /\ fileobj'[Len(fileobj') - 1] = Line("num", <<Bytes(fileobj)>>)
           /\ fileobj'[Len(fileobj')].k = "eof"
           /\ LineAt(fileobj', Bytes(fileobj)) = Len(fileobj) + 1]_vars

\* a finished session that extended the catalog and overwrote Info
C6_Witness ==
    /\ finished
    /\ \E i \in 1..Len(calls) :
           calls[i].op = "extend" /\ calls[i].n = RootNo(layout)
    /\ \E i \in 1..Len(calls) :
           calls[i].op = "overwrite" /\ calls[i].n = InfoNo(layout)

(***************************************************************************)
(* C7.  The subsections finish writes for the overwritten objects.         *)
(***************************************************************************)
IsOldSubsection(sub) == ~IsNewSubsection(sub)

FirstsOf(subs) == [i \in 1..Len(subs) |-> subs[i].first]

\* the numbers of S in the order of the call indices that at gives them
RECURSIVE OrderedBy(_, _, _)
OrderedBy(S, at(_), done) ==
    IF S = {} THEN done
    ELSE LET n == CHOOSE m \in S : \A k \in S : at(m) <= at(k)
         IN  OrderedBy(S \ {n}, at, Append(done, n))

FirstCall(n) == Earliest(OverwritesOf(n))

LastCall(n) == Latest(OverwritesOf(n))

FirstCallOrder == OrderedBy(OverwrittenNumbers, FirstCall, <<>>)

LastCallOrder == OrderedBy(OverwrittenNumbers, LastCall, <<>>)

\* every overwritten number has one subsection of one entry, the offset of
\* its latest copy, and these subsections precede that of the new objects
OneEach(tab, subs, olds) ==
    /\ Len(olds) = Cardinality(OverwrittenNumbers)
    /\ {olds[i].first : i \in 1..Len(olds)} = OverwrittenNumbers
    /\ \A i \in 1..Len(olds) :
           /\ Len(olds[i].offs) = 1
           /\ olds[i].entries
           /\ ObjectAt(fileobj, tab, olds[i].offs[1],
                       ExpectedLines(olds[i].first))
    /\ subs = olds \o SelectSeq(subs, IsNewSubsection)

OneSubsectionEach(tab) ==
    OneEach(tab, NewSubsections(tab),
            SelectSeq(NewSubsections(tab), IsOldSubsection))

\* C7 as stated: one subsection per overwritten number, latest offset, in the
\* order of the overwrite calls (of the first or of the last call of each
\* number), all before the subsection of the new objects.
C7_CallOrder ==
    finished =>
        LET tab == OffsetTable(fileobj)
            olds == SelectSeq(NewSubsections(tab), IsOldSubsection)
        IN  /\ OneSubsectionEach(tab)
            /\ \/ FirstsOf(olds) = FirstCallOrder
               \/ FirstsOf(olds) = LastCallOrder

\* C7 amended: one subsection of one entry per distinct overwritten number,
\* carrying the offset of its latest copy, all before the subsection of the
\* new objects, in the order in which the dict of overwritten offsets
\* enumerates its keys, which need not be the order of the calls.
C7_OneSubsectionEach == finished => OneSubsectionEach(OffsetTable(fileobj))

\* a finished session that overwrote two numbers, the higher one first, and
\* wrote a new object
C7_Witness ==
    /\ finished
    /\ NewCalls # {}
    /\ \E n, m \in OverwrittenNumbers :
           n < m /\ Earliest(OverwritesOf(m)) < Earliest(OverwritesOf(n))

(***************************************************************************)
(* C8.  As stated: finish right after construction leaves the N original   *)
(* bytes unchanged and follows them with a well-formed update section:     *)
(* `xref', one or more subsections, a trailer with the original Root and   *)
(* Info, startxref and the end-of-file marker.                             *)
(***************************************************************************)
C8_NoOpRoundTrip ==
    (finished /\ Writes = {}) =>
        /\ Len(fileobj) >= OrigLen + 6
        /\ SubSeq(fileobj, 1, OrigLen) = OrigFiles[layout]
        /\ fileobj[OrigLen + 1].k = "xref"
        /\ Len(Subsections(fileobj, OrigLen + 2)) >= 1
        /\ AfterSubsections(fileobj, OrigLen + 2) = Len(fileobj) - 4
        /\ fileobj[Len(fileobj) - 4].k = "trailer"
        /\ NewTrailer.k = "tdict"
        /\ NewTrailer.v[2] = RootNo(layout)
        /\ NewTrailer.v[3] = InfoNo(layout)
        /\ fileobj[Len(fileobj) - 2].k = "startxref"
        /\ fileobj[Len(fileobj)].k = "eof"

(***************************************************************************)
(* C9.  The original offset table stays the one read at construction, and  *)
(* every read_object(n) before finish (ReadObject reads every original n   *)
(* from every unfinished state; result holds what it returned) returns the *)
(* bytes the input holds for n, also after n was overwritten or extended.  *)
(***************************************************************************)
C9_ReadsOriginal ==
    /\ objects_offsets = OrigOffsets
    /\ result.op = "read" =>
           /\ ~finished
           /\ result.st = "ok"
           /\ result.val = ByteString(OrigBody(layout, result.num), TRUE)

\* a read of an object that the session has overwritten and extended
C9_Witness ==
    /\ ~finished
    /\ result.op = "read"
    /\ \E i, j \in OverwritesOf(result.num) :
           calls[i].op = "overwrite" /\ calls[j].op = "extend"

(***************************************************************************)
(* C10.  As stated: process_bookmarks raises nothing on a list whose       *)
(* levels are all at least 1, and returns one node per entry, in order,    *)
(* whose Parent is the root or an earlier entry.                           *)
(***************************************************************************)
C10_Completes ==
    /\ bm.err = "none"
    /\ bm.i = Len(bm.raw) =>
           /\ Len(bm.bookmark_list) = Len(bm.raw)
           /\ \A j \in 1..Len(bm.bookmark_list) :
                  /\ bm.bookmark_list[j].label = j
                  /\ bm.bookmark_list[j].Parent \in 0..(j - 1)

(***************************************************************************)
(* The tree process_bookmarks has built: nodes are indices, 0 the root.    *)
(***************************************************************************)
\* x is a strict ancestor of j under Parent (depth bounds the walk)
RECURSIVE IsAncestor(_, _, _, _)
IsAncestor(st, x, j, depth) ==
    IF j = 0 \/ depth = 0 THEN FALSE
    ELSE \/ st.bookmark_list[j].Parent = x
         \/ IsAncestor(st, x, st.bookmark_list[j].Parent, depth - 1)

Descendants(st, x) ==
    {j \in 1..Len(st.bookmark_list) :
        IsAncestor(st, x, j, Len(st.bookmark_list))}

Children(st, x) ==
    {j \in 1..Len(st.bookmark_list) : st.bookmark_list[j].Parent = x}

(***************************************************************************)
(* C11.  After every prefix of the input that process_bookmarks has        *)
(* processed without raising, and so in the tree it returns, the Count of  *)
(* every node, the root included, is the number of its strict descendants  *)
(* under Parent; the Count of the root is the number of bookmarks.         *)
(***************************************************************************)
C11_Count ==
    bm.err = "none" =>
        /\ Len(bm.bookmark_list) = bm.i
        /\ bm.root.Count = Len(bm.bookmark_list)
        /\ \A x \in 0..Len(bm.bookmark_list) :
               NodeOf(bm, x).Count = Cardinality(Descendants(bm, x))

\* a returned tree in which a bookmark has a grandchild
C11_Witness ==
    /\ bm.err = "none"
    /\ bm.i = Len(bm.raw)
    /\ \E x, y, z \in 1..Len(bm.bookmark_list) :
           /\ bm.bookmark_list[y].Parent = x
           /\ bm.bookmark_list[z].Parent = y
           /\ bm.bookmark_list[x].Count >= 2

(***************************************************************************)
(* C12.  When the declared level of the next bookmark exceeds the tracked  *)
(* previous level, by whatever amount, the iteration does not raise and    *)
(* makes the bookmark a child of the entry just before it (of the root for *)
(* the first entry), as that node's First child.  For the levels [1, 3, 1] *)
(* the second node is the only child of the first, and the third is the    *)
(* next sibling of the first under the root.                               *)
(***************************************************************************)
PreviousLevel(st) == Len(st.last_by_level) - 1 + Sum(st.level_shifts)

Jumps(st) ==
    /\ st.err = "none"
    /\ st.i < Len(st.raw)
    /\ st.raw[st.i + 1] > PreviousLevel(st)

C12_DepthJump ==
    [][/\ Jumps(bm) =>
              /\ bm'.err = "none"
              /\ bm'.i = bm.i + 1
              /\ bm'.bookmark_list[bm.i + 1].Parent = bm.i
              /\ NodeOf(bm', bm.i).First = bm.i + 1
              /\ NodeOf(bm', bm.i).Last = bm.i + 1
       /\ (bm'.raw = <<1, 3, 1>> /\ bm'.i = 3) =>
              /\ bm'.err = "none"
              /\ Children(bm', 1) = {2}
              /\ Children(bm', 0) = {1, 3}
              /\ bm'.bookmark_list[1].Next = 3
              /\ bm'.bookmark_list[3].Prev = 1]_vars

\* the levels [1, 3, 1] processed to the end
C12_Witness ==
    /\ bm.raw = <<1, 3, 1>>
    /\ bm.i = 3
    /\ bm.err = "none"
    /\ bm.bookmark_list[2].Parent = 1

(***************************************************************************)
(* C13.  In the tree built from a non-empty input (and after every         *)
(* non-empty prefix processed without raising), the children of every      *)
(* node p, the root included, taken in input order, are chained: First of  *)
(* p is the first and Last of p the last, the first has no Prev, the last  *)
(* no Next, and each is the Prev of the one that follows it, which is its  *)
(* Next; a node without children has neither First nor Last.  The levels   *)
(* [1, 2, 2, 1] (A, B, C, D) give the links the specification lists.       *)
(***************************************************************************)
MinOf(S) == CHOOSE i \in S : \A j \in S : i <= j

MaxOf(S) == CHOOSE i \in S : \A j \in S : j <= i

\* the child of C that follows c in input order
Following(C, c) == MinOf({d \in C : d > c})

Chained(st, p, C) ==
    IF C = {} THEN NodeOf(st, p).First = None /\ NodeOf(st, p).Last = None
    ELSE /\ NodeOf(st, p).First = MinOf(C)
         /\ NodeOf(st, p).Last = MaxOf(C)
         /\ st.bookmark_list[MinOf(C)].Prev = None
         /\ st.bookmark_list[MaxOf(C)].Next = None
         /\ \A c \in C \ {MaxOf(C)} :
                /\ st.bookmark_list[c].Next = Following(C, c)
                /\ st.bookmark_list[Following(C, c)].Prev = c

C13_Siblings ==
    /\ (bm.err = "none" /\ bm.i >= 1) =>
           \A p \in 0..Len(bm.bookmark_list) : Chained(bm, p, Children(bm, p))
    /\ (bm.raw = <<1, 2, 2, 1>> /\ bm.i = 4) =>
           /\ bm.err = "none"
           /\ bm.bookmark_list[1].First = 2
           /\ bm.bookmark_list[1].Last = 3
           /\ bm.bookmark_list[1].Count = 2
           /\ bm.bookmark_list[1].Next = 4
           /\ bm.bookmark_list[2].Parent = 1
           /\ bm.bookmark_list[2].Next = 3
           /\ bm.bookmark_list[3].Parent = 1
           /\ bm.bookmark_list[3].Prev = 2
           /\ bm.bookmark_list[4].Prev = 1
           /\ bm.root.Count = 4
           /\ bm.root.First = 1
           /\ bm.root.Last = 4

\* the levels [1, 2, 2, 1] processed to the end
C13_Witness ==
    /\ bm.raw = <<1, 2, 2, 1>>
    /\ bm.i = 4
    /\ bm.err = "none"
    /\ Children(bm, 1) = {2, 3}

(***************************************************************************)
(* C14.  As stated: read_object(n) either returns the lines that follow    *)
(* the header `n 0 obj' at offset[n] up to and including the first line    *)
(* equal to the close token, `endobj' following it, or raises; it raises   *)
(* in particular when the header names another number and when the file    *)
(* ends before a close line.                                               *)
(***************************************************************************)
HeaderLine(n) == LineAt(fileobj, objects_offsets[n])

HeaderOk(n) ==
    /\ HeaderLine(n) \in 1..Len(fileobj)
    /\ fileobj[HeaderLine(n)] = Line("obj", <<n>>)

Raised(st) == st \in {"AssertionError", "StopIteration", "IndexError"}

IsBodyOf(val, n) ==
    /\ HeaderOk(n)
    /\ FirstClose(fileobj, HeaderLine(n) + 1) # 0
    /\ FirstClose(fileobj, HeaderLine(n) + 1) < Len(fileobj)
    /\ fileobj[FirstClose(fileobj, HeaderLine(n) + 1) + 1].k = "endobj"
    /\ val = ByteString(SubSeq(fileobj, HeaderLine(n) + 1,
                               FirstClose(fileobj, HeaderLine(n) + 1)), TRUE)

C14_BodyOrError ==
    result.op = "read" =>
        /\ \/ result.st = "ok" /\ IsBodyOf(result.val, result.num)
           \/ Raised(result.st)
        /\ ~HeaderOk(result.num) => Raised(result.st)
        /\ (HeaderOk(result.num)
            /\ FirstClose(fileobj, HeaderLine(result.num) + 1) = 0)
               => Raised(result.st)

(***************************************************************************)
(* Document order: the boxes of a page, each before its descendants,       *)
(* children in order; the pages in order.                                  *)
(***************************************************************************)
RECURSIVE Preorder(_, _, _)
RECURSIVE PreorderAll(_, _, _, _)
Preorder(box, page_index, path) ==
    <<[box |-> box, page |-> page_index, path |-> path]>>
    \o PreorderAll(box.children, 1, page_index, path)

PreorderAll(children, k, page_index, path) ==
    IF k > Len(children) THEN <<>>
    ELSE Preorder(children[k], page_index, Append(path, k))
         \o PreorderAll(children, k + 1, page_index, path)

PageOrder(document, p) == Preorder(document[p], p - 1, <<>>)

RECURSIVE DocumentOrder(_, _)
DocumentOrder(document, p) ==
    IF p > Len(document) THEN <<>>
    ELSE PageOrder(document, p) \o DocumentOrder(document, p + 1)

Carriers(order, name) == {i \in 1..Len(order) : order[i].box.anchor = name}

\* the position of the first box of the document that carries the anchor
FirstCarrier(order, name) ==
    <<order[MinOf(Carriers(order, name))].page,
      order[MinOf(Carriers(order, name))].path>>

IsKept(order, link) ==
    \/ link.type = "external"
    \/ link.type = "internal" /\ Carriers(order, link.href) # {}

\* the links expected of the boxes seen, in their order
RECURSIVE ExpectedLinks(_, _, _)
ExpectedLinks(order, seen, k) ==
    IF k > Len(seen) THEN <<>>
    ELSE IF ~IsKept(order, seen[k].box.link)
        THEN ExpectedLinks(order, seen, k + 1)
    ELSE <<[type |-> seen[k].box.link.type,
            target |-> IF seen[k].box.link.type = "internal"
                       THEN FirstCarrier(order, seen[k].box.link.href)
                       ELSE seen[k].box.link.href,
            rectangle |-> seen[k].path]>>
         \o ExpectedLinks(order, seen, k + 1)

(***************************************************************************)
(* C15.  gather_metadata returns one list of links per page, in page       *)
(* order; the list of a page holds, in document order, every external link *)
(* of the page and those internal links of the page whose anchor some box  *)
(* of the document (on any page) carries, each aimed at the first box in   *)
(* document order that carries the anchor; an internal link without anchor *)
(* is left out, nothing is raised and the other links stay in place.       *)
(***************************************************************************)
C15_Links ==
    gm.pc = "done" =>
        /\ Len(gm.resolved_links_by_page) = Len(gm.document)
        /\ \A p \in 1..Len(gm.document) :
               gm.resolved_links_by_page[p] =
                   ExpectedLinks(DocumentOrder(gm.document, 1),
                                 PageOrder(gm.document, p), 1)

\* a page whose first box links to an anchor no box carries and whose second
\* box links to an anchor: the second link alone is returned
C15_Witness ==
    /\ gm.pc = "done"
    /\ Len(gm.document[1].children) = 2
    /\ gm.document[1].children[1].link = [type |-> "internal", href |-> "b"]
    /\ gm.document[1].children[2].link = [type |-> "internal", href |-> "a"]
    /\ Len(gm.resolved_links_by_page[1]) = 1
    /\ gm.resolved_links_by_page[1][1].rectangle = <<2>>
    /\ gm.resolved_links_by_page[2] = <<>>

(***************************************************************************)
(* C16.  extend_dict leaves the views as they were read at construction    *)
(* and writes the bytes of the view as read then, with the new content     *)
(* alone before the closing token: after extend_dict(view, e1),            *)
(* extend_dict(view, e2) and finish, the object resolves to the original   *)
(* body with e2 before the closing token and without e1.  The new content  *)
(* of call number i is the line `extra i'.                                 *)
(***************************************************************************)
OrigView(n) == PDFDictionary(n, ByteString(OrigBody(layout, n), TRUE))

\* the original body of n with the new content of call i before its close
ExtendedBody(n, i) ==
    SubSeq(OrigBody(layout, n), 1, Len(OrigBody(layout, n)) - 1)
    \o <<Line("extra", <<i>>), Line("close", <<>>)>>

ExtendCalls == {i \in 1..Len(calls) : calls[i].op = "extend"}

\* the views are those read at construction
C16_Views ==
    /\ info = OrigView(InfoNo(layout))
    /\ catalog = OrigView(RootNo(layout))
    /\ page_tree = OrigView(PageTreeNo(layout))
    /\ pages = [p \in 1..NPages(layout) |-> OrigView(p)]

\* every extension written is the original body with its own content only
C16_Extended ==
    \A i \in ExtendCalls :
        calls[i].b = ByteString(ExtendedBody(calls[i].n, i), TRUE)

\* the finished file f resolves an object last written by an extension to
\* that extension (the write calls are those made before finish)
C16_Resolved(f) ==
    LET tab == OffsetTable(f)
        x == LineOf(tab, LastStartxref(f))
    IN  \A i \in ExtendCalls :
            i = Latest(WritesOf(calls[i].n)) =>
                ObjectAt(f, tab, ResolveAt(f, tab, x, calls[i].n),
                         <<Line("obj", <<calls[i].n>>)>>
                         \o ExtendedBody(calls[i].n, i)
                         \o <<Line("blank", <<>>),
                              Line("endobj", <<>>)>>)

C16_ExtendFromOriginal ==
    /\ C16_Views
    /\ [][/\ C16_Views'
          /\ C16_Extended'
          /\ (~finished /\ finished') => C16_Resolved(fileobj')]_vars

\* a finished session that extended the same view twice
C16_Witness ==
    /\ finished
    /\ \E i, j \in ExtendCalls :
           /\ i < j
           /\ calls[i].n = calls[j].n
           /\ j = Latest(WritesOf(calls[j].n))

(***************************************************************************)
(* C17.  As stated: write_pdf_metadata writes the Outlines root as new     *)
(* object R and bookmark i as new object R + i; every bookmark object      *)
(* carries /Parent R + Parent(i) (R itself for a top-level bookmark) and a *)
(* reference R + index for exactly those of Prev, Next, First and Last     *)
(* that are not none; every reference names an object written in the      *)
(* session.                                                                *)
(***************************************************************************)
LinesOf(b) == {b.ls[k] : k \in 1..Len(b.ls)}

LinkKeys == {"Prev", "Next", "First", "Last"}

\* the object written for bookmark i, R being the number of the Outlines root
BookmarkObjectOk(i, R, node, ls) ==
    /\ calls[3 + i].op = "new"
    /\ calls[3 + i].n = R + i
    /\ Line("Parent", <<R + node.Parent>>) \in ls
    /\ \A key \in LinkKeys :
           /\ node[key] # None => Line(key, <<R + node[key]>>) \in ls
           /\ node[key] = None => ~\E l \in ls : l.k = key
    /\ \A l \in ls :
           l.k \in LinkKeys \cup {"Parent"} =>
               l.v[1] \in R..(R + Len(bm.bookmark_list))

C17_OutlineReferences ==
    (Len(calls) >= 2 /\ calls[2].op = "new") =>
        /\ calls[2].n = OrigCount(layout) + 1
        /\ \A i \in 1..Len(bm.bookmark_list) :
               Len(calls) >= 3 + i =>
                   BookmarkObjectOk(i, calls[2].n, bm.bookmark_list[i],
                                    LinesOf(calls[3 + i].b))

(***************************************************************************)
(* C18.  As stated: in the tree process_bookmarks builds, a strict         *)
(* ancestor of a bookmark has a smaller declared level than the bookmark,  *)
(* and a bookmark of declared level 1 is a direct child of the root.       *)
(***************************************************************************)
\* the level the input declares for bookmark j
DeclaredLevel(st, j) == st.raw[j]

C18_AncestorsShallower ==
    bm.err = "none" =>
        /\ \A a, b \in 1..Len(bm.bookmark_list) :
               IsAncestor(bm, a, b, Len(bm.bookmark_list)) =>
                   DeclaredLevel(bm, a) < DeclaredLevel(bm, b)
        /\ \A b \in 1..Len(bm.bookmark_list) :
               DeclaredLevel(bm, b) = 1 => bm.bookmark_list[b].Parent = 0

\* the second half of C18 alone
C18_LevelOneAtTop ==
    bm.err = "none" =>
        \A b \in 1..Len(bm.bookmark_list) :
            DeclaredLevel(bm, b) = 1 => bm.bookmark_list[b].Parent = 0

(***************************************************************************)
(* C19.  As stated: PDFFile can be constructed again on the file a         *)
(* finished session leaves, and the construction resolves the same Info,   *)
(* Root, page tree and pages as the first, with the bodies last written.   *)
(***************************************************************************)
\* the view has the number of the first session's view and the latest body
SameView(again, first) ==
    /\ again.object_number = first.object_number
    /\ <<Line("obj", <<first.object_number>>)>> \o again.byte_string.ls
           \o <<Line("endobj", <<>>)>>
       = ExpectedLines(first.object_number)

ChainedStore(st) ==
    /\ st.ok
    /\ SameView(st.info, info)
    /\ SameView(st.catalog, catalog)
    /\ SameView(st.page_tree, page_tree)
    /\ Len(st.pages) = Len(pages)
    /\ \A k \in 1..Len(pages) : SameView(st.pages[k], pages[k])

C19_Chained == finished => ChainedStore(PDFFile_init(fileobj))

(***************************************************************************)
(* C19, amended.  The file that the step completing a session leaves (no   *)
(* later call changes it) is never accepted by the constructor: its        *)
(* trailer is matched and its startxref leads to an `xref' line, but the   *)
(* line after it is not a subsection that starts at object 0 (it is the    *)
(* subsection of an overwritten or new object, or the trailer when nothing *)
(* was written), so the construction fails.                                *)
(***************************************************************************)
StartsAtZero(l) == l.k = "sub" /\ l.v[1] = 0

SectionRejected(f, x) ==
    /\ x > 0
    /\ x < Len(f)
    /\ f[x].k = "xref"
    /\ ~StartsAtZero(f[x + 1])

\* the constructor on the file f, t being the line trailer_re matches at:
\* it gets as far as the section and fails
Rejected(f, t) ==
    /\ t # 0
    /\ SectionRejected(f, LineAt(f, LastStartxref(f)))
    /\ ~InitAtTrailer(f, t, LastStartxref(f)).ok

C19_NotChainable ==
    [][(~finished /\ finished') =>
           Rejected(fileobj', TrailerSearch(fileobj'))]_vars

\* a finished session that overwrote an object and wrote a new one
C19_Witness ==
    /\ finished
    /\ OverwrittenNumbers # {}
    /\ NewCalls # {}
    /\ ~PDFFile_init(fileobj).ok

=============================================================================
